---- MODULE Spec2Model ----
(***************************************************************************)
(* A model of the Breadth value type of bevy_ui_style_builder (src/lib.rs) *)
(* and of its conversions to and from bevy's Val, of NumRect, and of the   *)
(* builder setters of StyleBuilderExt on a Style and on a NodeBundle.      *)
(*                                                                         *)
(* Spec has the calls on a Breadth, SpecRect the calls of NumRect, and     *)
(* SpecStyle, SpecNode and SpecEdge the builder chains, which start with   *)
(* style() or node() and are at most MaxChain setters long.                *)
(*                                                                         *)
(* One caller-owned Breadth, `breadth`, is the receiver of every method.   *)
(* Each action is one call: it records the call's arguments and the value  *)
(* of the receiver before the call in `call`, the returned value in `ret`, *)
(* and the receiver after the call in `breadth`.                           *)
(*                                                                         *)
(* f32 payloads are modelled as extended rationals num/den with den = 0    *)
(* for the three special values (NaN, +inf, -inf).  The four f32 operators *)
(* follow the IEEE rules for the special values and round a result whose   *)
(* numerator needs more than the 24 bits of the f32 significand to the     *)
(* nearest value that fits, ties to even.  A result with a smaller         *)
(* numerator is kept as it is (exact for a dyadic value; x / 100 is kept   *)
(* as the rational it is).  The exponent range and the sign of zero are    *)
(* not modelled, and equality is identity of values (NaN is one value,     *)
(* equal to itself).                                                       *)
(***************************************************************************)
EXTENDS Integers, Sequences, FiniteSets, TLC

VARIABLES
    breadth,    \* the receiver: a Breadth (lib.rs 39-44)
    style,      \* the Style that a builder chain is making, once style() made it
    node,       \* the NodeBundle that a chain is making, once node() made it
    chain,      \* the number of setters chained since style() or node()
    call,       \* the last call: its name, the receiver before it, its arguments
    ret         \* the value the last call returned

vars == <<breadth, style, node, chain, call, ret>>

(***************************************************************************)
(* Bounds of the model.                                                    *)
(***************************************************************************)
\* payloads of the argument values are the integers -MaxPayload..MaxPayload
MaxPayload == 2
\* the receiver's payload stays within -MaxAbs..MaxAbs ...
MaxAbs == 4
\* ... with a denominator of at most MaxDen
MaxDen == 2

(***************************************************************************)
(* f32: extended rationals.                                                *)
(***************************************************************************)
F32(n, d) == [num |-> n, den |-> d]

NaN == F32(0, 0)

PosInf == F32(1, 0)

NegInf == F32(-1, 0)

Abs(n) == IF n < 0 THEN -n ELSE n

Sign(n) == IF n < 0 THEN -1 ELSE IF n > 0 THEN 1 ELSE 0

RECURSIVE GCD(_, _)
GCD(m, n) == IF n = 0 THEN m ELSE GCD(n, m % n)

\* the rational n/d (d # 0) in lowest terms with a positive denominator
Norm(n, d) ==
    LET g == GCD(Abs(n), Abs(d))
        s == IF d < 0 THEN -1 ELSE 1
    IN  F32((s * n) \div g, (s * d) \div g)

Lit(n) == F32(n, 1)

IsNaN(x) == x.den = 0 /\ x.num = 0

IsInf(x) == x.den = 0 /\ x.num # 0

IsFinite(x) == x.den # 0

\* the number of bits of the significand of an f32
MantissaBits == 24

\* the least s such that n \div 2^s has at most MantissaBits bits (n >= 0)
RECURSIVE Excess(_)
Excess(n) == IF n < 2^MantissaBits THEN 0 ELSE 1 + Excess(n \div 2)

\* n (>= 0) rounded to MantissaBits significant bits, ties to even
RoundNat(n) ==
    LET s == Excess(n)
        q == n \div 2^s
        r == n % 2^s
    IN  IF s = 0 THEN n
        ELSE IF 2 * r > 2^s \/ (2 * r = 2^s /\ q % 2 = 1) THEN (q + 1) * 2^s
        ELSE q * 2^s

\* the f32 nearest to x
Round(x) ==
    IF x.den = 0 \/ Abs(x.num) < 2^MantissaBits THEN x
    ELSE Norm(Sign(x.num) * RoundNat(Abs(x.num)), x.den)

\* the sum of x and y before rounding
ExactSum(x, y) ==
    IF IsNaN(x) \/ IsNaN(y) THEN NaN
    ELSE IF IsInf(x) /\ IsInf(y) THEN (IF x.num = y.num THEN x ELSE NaN)
    ELSE IF IsInf(x) THEN x
    ELSE IF IsInf(y) THEN y
    ELSE Norm(x.num * y.den + y.num * x.den, x.den * y.den)

\* f32 `+`
FAdd(x, y) == Round(ExactSum(x, y))

\* f32 `-`
FSub(x, y) ==
    Round(IF IsNaN(x) \/ IsNaN(y) THEN NaN
          ELSE IF IsInf(x) /\ IsInf(y) THEN (IF x.num # y.num THEN x ELSE NaN)
          ELSE IF IsInf(x) THEN x
          ELSE IF IsInf(y) THEN F32(-y.num, 0)
          ELSE Norm(x.num * y.den - y.num * x.den, x.den * y.den))

\* f32 `*`
FMul(x, y) ==
    Round(IF IsNaN(x) \/ IsNaN(y) THEN NaN
          ELSE IF IsInf(x) \/ IsInf(y)
               THEN (IF x.num = 0 \/ y.num = 0 THEN NaN
                     ELSE F32(Sign(x.num) * Sign(y.num), 0))
          ELSE Norm(x.num * y.num, x.den * y.den))

\* f32 `/`
FDiv(x, y) ==
    Round(IF IsNaN(x) \/ IsNaN(y) THEN NaN
          ELSE IF IsInf(x) /\ IsInf(y) THEN NaN
          ELSE IF IsInf(x) THEN F32(IF y.num < 0 THEN -x.num ELSE x.num, 0)
          ELSE IF IsInf(y) THEN Lit(0)
          ELSE IF y.num = 0
               THEN (IF x.num = 0 THEN NaN ELSE F32(Sign(x.num), 0))
          ELSE Norm(x.num * y.den, x.den * y.num))

\* the f32 values the model keeps in the receiver
InRange(x) == IsFinite(x) => (x.den <= MaxDen /\ Abs(x.num) <= MaxAbs * x.den)

(***************************************************************************)
(* Breadth, Val, Result.                                                   *)
(***************************************************************************)
Px(v) == [variant |-> "Px", value |-> v]

Percent(v) == [variant |-> "Percent", value |-> v]

ValPx(v) == [variant |-> "Val::Px", value |-> v]

ValPercent(v) == [variant |-> "Val::Percent", value |-> v]

ValAuto == [variant |-> "Val::Auto"]

ValUndefined == [variant |-> "Val::Undefined"]

Ok(v) == [tag |-> "Ok", value |-> v]

Err(e) == [tag |-> "Err", error |-> e]

Unit == [unit |-> TRUE]

NonIdenticalVariants == "NonIdenticalVariants"

NonEvaluateable == "NonEvaluateable"

\* the divisor of a percentage
PercentBase == 100

(***************************************************************************)
(* Inputs.                                                                 *)
(***************************************************************************)
Payloads == {Lit(n) : n \in -MaxPayload..MaxPayload} \cup {NaN, PosInf, NegInf}

Breadths == {Px(v) : v \in Payloads} \cup {Percent(v) : v \in Payloads}

Vals == {ValPx(v) : v \in Payloads} \cup {ValPercent(v) : v \in Payloads}
            \cup {ValAuto, ValUndefined}

Sizes == {Lit(0), Lit(100), Lit(250), Lit(-50), PosInf}

Factors == {Lit(0), Lit(2), Lit(-1), NaN}

(***************************************************************************)
(* The methods of Breadth.                                                 *)
(***************************************************************************)
Breadth_default == Px(Lit(0))

\* Val::from with the fault of mapping both variants to Val::Px
Val_from_px_only(value) == ValPx(value.value)

\* Val::from with the fault of turning a zero length into Val::Auto
Val_from_zero_auto(value) ==
    CASE value.value = Lit(0) -> ValAuto
      [] value.variant = "Px" -> ValPx(value.value)
      [] value.variant = "Percent" -> ValPercent(value.value)

\* impl From<Breadth> for Val
Val_from(value) ==
    CASE value.variant = "Px" -> ValPx(value.value)
      [] value.variant = "Percent" -> ValPercent(value.value)

\* Breadth::try_from with the fault of defaulting instead of failing
Breadth_try_from_defaulting(value) ==
    CASE value.variant = "Val::Px" -> Ok(Px(value.value))
      [] value.variant = "Val::Percent" -> Ok(Percent(value.value))
      [] OTHER -> Ok(Breadth_default)

\* Breadth::try_from with the fault of dropping the percent tag
Breadth_try_from_untagged(value) ==
    CASE value.variant \in {"Val::Px", "Val::Percent"} -> Ok(Px(value.value))
      [] OTHER -> Err(NonEvaluateable)

\* impl TryFrom<Val> for Breadth
Breadth_try_from(value) ==
    CASE value.variant = "Val::Px" -> Ok(Px(value.value))
      [] value.variant = "Val::Percent" -> Ok(Percent(value.value))
      [] OTHER -> Err(NonEvaluateable)

\* Mul with the fault of a Percent arm that builds a Px
mul_percent_to_px(this, rhs) == Px(FMul(this.value, rhs))

\* impl Mul<f32> for Breadth
mul(this, rhs) ==
    CASE this.variant = "Px" -> Px(FMul(this.value, rhs))
      [] this.variant = "Percent" -> Percent(FMul(this.value, rhs))

\* impl MulAssign<f32> for Breadth: `*value *= rhs` on the payload in place
mul_assign(this, rhs) ==
    [variant |-> this.variant, value |-> FMul(this.value, rhs)]

\* Div with the fault of a guard that keeps the value when rhs is zero
div_guarded(this, rhs) ==
    IF rhs = Lit(0) THEN this
    ELSE [variant |-> this.variant, value |-> FDiv(this.value, rhs)]

\* impl Div<f32> for Breadth
div(this, rhs) ==
    CASE this.variant = "Px" -> Px(FDiv(this.value, rhs))
      [] this.variant = "Percent" -> Percent(FDiv(this.value, rhs))

\* DivAssign with the fault of rebuilding the receiver as a Px
div_assign_px(this, rhs) == Px(FDiv(this.value, rhs))

\* impl DivAssign<f32> for Breadth: `*value /= rhs` on the payload in place
div_assign(this, rhs) ==
    [variant |-> this.variant, value |-> FDiv(this.value, rhs)]

\* try_add with the fault of coercing a mixed pair to the receiver's variant
try_add_coercing(this, rhs) ==
    Ok([variant |-> this.variant, value |-> FAdd(this.value, rhs.value)])

\* try_add with the fault of a Px receiver absorbing a Percent operand
try_add_px_absorbing(this, rhs) ==
    CASE this.variant = "Px" /\ rhs.variant = "Px" ->
            Ok(Px(FAdd(this.value, rhs.value)))
      [] this.variant = "Percent" /\ rhs.variant = "Percent" ->
            Ok(Percent(FAdd(this.value, rhs.value)))
      [] this.variant = "Px" /\ rhs.variant = "Percent" -> Ok(this)
      [] OTHER -> Err(NonIdenticalVariants)

\* try_add with the fault of a Percent arm that builds a Px
try_add_percent_to_px(this, rhs) ==
    CASE this.variant = rhs.variant -> Ok(Px(FAdd(this.value, rhs.value)))
      [] OTHER -> Err(NonIdenticalVariants)

try_add(this, rhs) ==
    CASE this.variant = "Px" /\ rhs.variant = "Px" ->
            Ok(Px(FAdd(this.value, rhs.value)))
      [] this.variant = "Percent" /\ rhs.variant = "Percent" ->
            Ok(Percent(FAdd(this.value, rhs.value)))
      [] OTHER -> Err(NonIdenticalVariants)

\* try_add_assign with the fault of dropping the sum
try_add_assign_discarding(this, rhs) ==
    LET r == try_add(this, rhs)
    IN  IF r.tag = "Err" THEN [self |-> this, ret |-> r]
        ELSE [self |-> this, ret |-> Ok(Unit)]

\* `*self = self.try_add(rhs)?; Ok(())`: the receiver after the call and
\* the returned value
try_add_assign(this, rhs) ==
    LET r == try_add(this, rhs)
    IN  IF r.tag = "Err" THEN [self |-> this, ret |-> r]
        ELSE [self |-> r.value, ret |-> Ok(Unit)]

\* try_sub with the fault of adding the payloads
try_sub_adding(this, rhs) ==
    CASE this.variant = "Px" /\ rhs.variant = "Px" ->
            Ok(Px(FAdd(this.value, rhs.value)))
      [] this.variant = "Percent" /\ rhs.variant = "Percent" ->
            Ok(Percent(FAdd(this.value, rhs.value)))
      [] OTHER -> Err(NonIdenticalVariants)

try_sub(this, rhs) ==
    CASE this.variant = "Px" /\ rhs.variant = "Px" ->
            Ok(Px(FSub(this.value, rhs.value)))
      [] this.variant = "Percent" /\ rhs.variant = "Percent" ->
            Ok(Percent(FSub(this.value, rhs.value)))
      [] OTHER -> Err(NonIdenticalVariants)

\* try_sub_assign with the fault of overwriting the receiver on failure
try_sub_assign_clobbering(this, rhs) ==
    LET r == try_sub(this, rhs)
    IN  IF r.tag = "Err" THEN [self |-> rhs, ret |-> r]
        ELSE [self |-> r.value, ret |-> Ok(Unit)]

try_sub_assign(this, rhs) ==
    LET r == try_sub(this, rhs)
    IN  IF r.tag = "Err" THEN [self |-> this, ret |-> r]
        ELSE [self |-> r.value, ret |-> Ok(Unit)]

\* evaluate with the fault of not dividing the percentage by 100
evaluate_unscaled(this, size) ==
    CASE this.variant = "Percent" -> FMul(size, this.value)
      [] this.variant = "Px" -> this.value

evaluate(this, size) ==
    CASE this.variant = "Percent" ->
            FDiv(FMul(size, this.value), Lit(PercentBase))
      [] this.variant = "Px" -> this.value

\* add_with_size with the fault of not evaluating the right operand
add_with_size_raw_rhs(this, rhs, size) ==
    FAdd(evaluate(this, size), rhs.value)

add_with_size(this, rhs, size) ==
    FAdd(evaluate(this, size), evaluate(rhs, size))

\* add_assign_with_size with the fault of keeping the receiver's variant
add_assign_with_size_tagged(this, rhs, size) ==
    [variant |-> this.variant,
     value |-> FAdd(evaluate(this, size), evaluate(rhs, size))]

add_assign_with_size(this, rhs, size) ==
    Px(FAdd(evaluate(this, size), evaluate(rhs, size)))

\* sub_with_size with the fault of adding the evaluated operands
sub_with_size_adding(this, rhs, size) ==
    FAdd(evaluate(this, size), evaluate(rhs, size))

sub_with_size(this, rhs, size) ==
    FSub(evaluate(this, size), evaluate(rhs, size))

\* sub_assign_with_size with the fault of keeping the receiver's variant
sub_assign_with_size_tagged(this, rhs, size) ==
    [variant |-> this.variant, value |-> add_with_size(this, rhs, size)]

sub_assign_with_size(this, rhs, size) ==
    Px(add_with_size(this, rhs, size))

(***************************************************************************)
(* NumRect and its conversion to bevy's UiRect.                            *)
(***************************************************************************)
\* the edges given to NumRect::new
Edges == {Px(Lit(1)), Percent(Lit(2))}

\* #[derive(Default)] on NumRect: every edge is Breadth::default()
NumRect_default ==
    [left |-> Breadth_default, right |-> Breadth_default,
     top |-> Breadth_default, bottom |-> Breadth_default]

NumRect_new(left, right, top, bottom) ==
    [left |-> left, right |-> right, top |-> top, bottom |-> bottom]

\* NumRect::all with the fault of leaving the bottom edge at the default
NumRect_all_but_bottom(value) ==
    [left |-> value, right |-> value, top |-> value,
     bottom |-> Breadth_default]

NumRect_all(value) ==
    [left |-> value, right |-> value, top |-> value, bottom |-> value]

NumRect_horizontal(value) ==
    [NumRect_default EXCEPT !.left = value, !.right = value]

NumRect_vertical(value) ==
    [NumRect_default EXCEPT !.top = value, !.bottom = value]

NumRect_left(value) == [NumRect_default EXCEPT !.left = value]

\* NumRect::right with the fault of setting the left edge
NumRect_right_sets_left(value) == [NumRect_default EXCEPT !.left = value]

NumRect_right(value) == [NumRect_default EXCEPT !.right = value]

NumRect_top(value) == [NumRect_default EXCEPT !.top = value]

NumRect_bottom(value) == [NumRect_default EXCEPT !.bottom = value]

\* UiRect::from with the fault of swapping top and bottom
UiRect_from_flipped(rect) ==
    [left |-> Val_from(rect.left), right |-> Val_from(rect.right),
     top |-> Val_from(rect.bottom), bottom |-> Val_from(rect.top)]

\* impl From<NumRect> for UiRect
UiRect_from(rect) ==
    [left |-> Val_from(rect.left), right |-> Val_from(rect.right),
     top |-> Val_from(rect.top), bottom |-> Val_from(rect.bottom)]

(***************************************************************************)
(* The builder setters: Either, Style and NodeBundle.                       *)
(***************************************************************************)
\* the length of the longest builder chain
MaxChain == 2

\* enum Either<L, R>
Left(value) == [tag |-> "Left", value |-> value]

Right(value) == [tag |-> "Right", value |-> value]

\* From<Breadth> for Either with the fault of dropping the Breadth
Either_from_Breadth_dropped(b) == Left(Breadth_default)

Either_from_Breadth(b) == Left(b)

Either_from_NumRect(rect) == Right(rect)

Either_from_Val(val) == Left(val)

Either_from_UiRect(rect) == Right(rect)

\* x.into() for x: impl Into<Either<Breadth, NumRect>>: the type of x selects
\* the From impl
Into_Either_Breadth_NumRect(x) ==
    IF "variant" \in DOMAIN x THEN Either_from_Breadth(x)
    ELSE Either_from_NumRect(x)

\* x.into() for x: impl Into<Either<Val, UiRect>>
Into_Either_Val_UiRect(x) ==
    IF "variant" \in DOMAIN x THEN Either_from_Val(x)
    ELSE Either_from_UiRect(x)

\* UiRect::all of bevy, as the margin setters call it
UiRect_all(value) ==
    [left |-> value, right |-> value, top |-> value, bottom |-> value]

\* the unit variants of bevy's enums that the setters assign
Display_Flex == [variant |-> "Display::Flex"]

Display_None == [variant |-> "Display::None"]

FlexDirection_Row == [variant |-> "FlexDirection::Row"]

FlexDirection_Column == [variant |-> "FlexDirection::Column"]

FlexDirection_RowReverse == [variant |-> "FlexDirection::RowReverse"]

FlexDirection_ColumnReverse == [variant |-> "FlexDirection::ColumnReverse"]

FlexWrap_Wrap == [variant |-> "FlexWrap::Wrap"]

FlexWrap_WrapReverse == [variant |-> "FlexWrap::WrapReverse"]

PositionType_Absolute == [variant |-> "PositionType::Absolute"]

PositionType_Relative == [variant |-> "PositionType::Relative"]

Overflow_Hidden == [variant |-> "Overflow::Hidden"]

Overflow_Visible == [variant |-> "Overflow::Visible"]

\* a field of Style::default() or NodeBundle::default(): bevy defines its
\* value, which no setter reads
Default(field) == [default |-> field]

\* the Style or the NodeBundle before style() or node() has made it
NotBuilt == [built |-> FALSE]

\* style(): Style::default()
Style_default ==
    [position |-> [left |-> Default("position.left"),
          right |-> Default("position.right"),
          top |-> Default("position.top"),
          bottom |-> Default("position.bottom")],
     display |-> Default("display"),
     flex_direction |-> Default("flex_direction"),
     flex_wrap |-> Default("flex_wrap"),
     position_type |-> Default("position_type"),
     flex_grow |-> Default("flex_grow"),
     flex_shrink |-> Default("flex_shrink"),
     flex_basis |-> Default("flex_basis"),
     min_size |-> [width |-> Default("min_size.width"),
          height |-> Default("min_size.height")],
     size |-> [width |-> Default("size.width"),
          height |-> Default("size.height")],
     max_size |-> [width |-> Default("max_size.width"),
          height |-> Default("max_size.height")],
     margin |-> [left |-> Default("margin.left"),
          right |-> Default("margin.right"),
          top |-> Default("margin.top"),
          bottom |-> Default("margin.bottom")],
     border |-> [left |-> Default("border.left"),
          right |-> Default("border.right"),
          top |-> Default("border.top"),
          bottom |-> Default("border.bottom")],
     padding |-> [left |-> Default("padding.left"),
          right |-> Default("padding.right"),
          top |-> Default("padding.top"),
          bottom |-> Default("padding.bottom")],
     overflow |-> Default("overflow"),
     align_self |-> Default("align_self"),
     align_items |-> Default("align_items"),
     align_content |-> Default("align_content"),
     justify_content |-> Default("justify_content")]

\* node(): NodeBundle::default(); of the fields of a NodeBundle the code names
\* style and background_color
NodeBundle_default ==
    [style |-> Style_default, background_color |-> Default("background_color")]

\* color.into(): bevy wraps the Color in a BackgroundColor
BackgroundColor_from(color) == [BackgroundColor |-> color]

NodeBundle_color(this, color) ==
    [this EXCEPT !.background_color = BackgroundColor_from(color)]

\* NodeBundleBuilderExt::style with the fault of not calling the closure
NodeBundle_style_unapplied(this, s) == this

\* NodeBundleBuilderExt::style: s is the closure, a function of the style it
\* is given
NodeBundle_style(this, s) == [this EXCEPT !.style = s[this.style]]

\* impl StyleBuilderExt for Style with the fault that row starts from the
\* default style
StyleBuilderExt_Style_row_fresh(this, setter, arg) ==
    CASE setter = "left" -> [this EXCEPT !.position.left = arg]
      [] setter = "right" -> [this EXCEPT !.position.right = arg]
      [] setter = "top" -> [this EXCEPT !.position.top = arg]
      [] setter = "bottom" -> [this EXCEPT !.position.bottom = arg]
      [] setter = "display" -> [this EXCEPT !.display = Display_Flex]
      [] setter = "disable" -> [this EXCEPT !.display = Display_None]
      [] setter = "row" ->
             [Style_default EXCEPT !.flex_direction = FlexDirection_Row]
      [] setter = "column" ->
             [this EXCEPT !.flex_direction = FlexDirection_Column]
      [] setter = "row_reverse" ->
             [this EXCEPT !.flex_direction = FlexDirection_RowReverse]
      [] setter = "column_reverse" ->
             [this EXCEPT !.flex_direction = FlexDirection_ColumnReverse]
      [] setter = "wrap" -> [this EXCEPT !.flex_wrap = FlexWrap_Wrap]
      [] setter = "wrap_reverse" ->
             [this EXCEPT !.flex_wrap = FlexWrap_WrapReverse]
      [] setter = "absolute" ->
             [this EXCEPT !.position_type = PositionType_Absolute]
      [] setter = "relative" ->
             [this EXCEPT !.position_type = PositionType_Relative]
      [] setter = "grow" -> [this EXCEPT !.flex_grow = arg]
      [] setter = "shrink" -> [this EXCEPT !.flex_shrink = arg]
      [] setter = "basis" -> [this EXCEPT !.flex_basis = arg]
      [] setter = "min_width" -> [this EXCEPT !.min_size.width = arg]
      [] setter = "width" -> [this EXCEPT !.size.width = arg]
      [] setter = "max_width" -> [this EXCEPT !.max_size.width = arg]
      [] setter = "min_height" -> [this EXCEPT !.min_size.height = arg]
      [] setter = "height" -> [this EXCEPT !.size.height = arg]
      [] setter = "max_height" -> [this EXCEPT !.max_size.height = arg]
      [] setter = "margin" ->
             (LET e == Into_Either_Val_UiRect(arg)
              IN  IF e.tag = "Left"
                  THEN [this EXCEPT !.margin = UiRect_all(e.value)]
                  ELSE [this EXCEPT !.margin = e.value])
      [] setter = "border" ->
             (LET e == Into_Either_Breadth_NumRect(arg)
              IN  [this EXCEPT !.border =
                      UiRect_from(IF e.tag = "Left" THEN NumRect_all(e.value)
                                  ELSE e.value)])
      [] setter = "padding" ->
             (LET e == Into_Either_Breadth_NumRect(arg)
              IN  [this EXCEPT !.padding =
                      UiRect_from(IF e.tag = "Left" THEN NumRect_all(e.value)
                                  ELSE e.value)])
      [] setter = "hide_overflow" ->
             [this EXCEPT !.overflow = Overflow_Hidden]
      [] setter = "show_overflow" ->
             [this EXCEPT !.overflow = Overflow_Visible]
      [] setter = "min_size" -> [this EXCEPT !.min_size = arg]
      [] setter = "size" -> [this EXCEPT !.size = arg]
      [] setter = "max_size" -> [this EXCEPT !.max_size = arg]
      [] setter = "align_self" -> [this EXCEPT !.align_self = arg]
      [] setter = "align_items" -> [this EXCEPT !.align_items = arg]
      [] setter = "align_content" -> [this EXCEPT !.align_content = arg]
      [] setter = "justify_content" -> [this EXCEPT !.justify_content = arg]

\* impl StyleBuilderExt for Style: setter names the method called and arg is
\* its argument (ignored by the methods that take none); the method takes the
\* Style by value and returns it
StyleBuilderExt_Style(this, setter, arg) ==
    CASE setter = "left" -> [this EXCEPT !.position.left = arg]
      [] setter = "right" -> [this EXCEPT !.position.right = arg]
      [] setter = "top" -> [this EXCEPT !.position.top = arg]
      [] setter = "bottom" -> [this EXCEPT !.position.bottom = arg]
      [] setter = "display" -> [this EXCEPT !.display = Display_Flex]
      [] setter = "disable" -> [this EXCEPT !.display = Display_None]
      [] setter = "row" -> [this EXCEPT !.flex_direction = FlexDirection_Row]
      [] setter = "column" ->
             [this EXCEPT !.flex_direction = FlexDirection_Column]
      [] setter = "row_reverse" ->
             [this EXCEPT !.flex_direction = FlexDirection_RowReverse]
      [] setter = "column_reverse" ->
             [this EXCEPT !.flex_direction = FlexDirection_ColumnReverse]
      [] setter = "wrap" -> [this EXCEPT !.flex_wrap = FlexWrap_Wrap]
      [] setter = "wrap_reverse" ->
             [this EXCEPT !.flex_wrap = FlexWrap_WrapReverse]
      [] setter = "absolute" ->
             [this EXCEPT !.position_type = PositionType_Absolute]
      [] setter = "relative" ->
             [this EXCEPT !.position_type = PositionType_Relative]
      [] setter = "grow" -> [this EXCEPT !.flex_grow = arg]
      [] setter = "shrink" -> [this EXCEPT !.flex_shrink = arg]
      [] setter = "basis" -> [this EXCEPT !.flex_basis = arg]
      [] setter = "min_width" -> [this EXCEPT !.min_size.width = arg]
      [] setter = "width" -> [this EXCEPT !.size.width = arg]
      [] setter = "max_width" -> [this EXCEPT !.max_size.width = arg]
      [] setter = "min_height" -> [this EXCEPT !.min_size.height = arg]
      [] setter = "height" -> [this EXCEPT !.size.height = arg]
      [] setter = "max_height" -> [this EXCEPT !.max_size.height = arg]
      [] setter = "margin" ->
             (LET e == Into_Either_Val_UiRect(arg)
              IN  IF e.tag = "Left"
                  THEN [this EXCEPT !.margin = UiRect_all(e.value)]
                  ELSE [this EXCEPT !.margin = e.value])
      [] setter = "border" ->
             (LET e == Into_Either_Breadth_NumRect(arg)
              IN  [this EXCEPT !.border =
                      UiRect_from(IF e.tag = "Left" THEN NumRect_all(e.value)
                                  ELSE e.value)])
      [] setter = "padding" ->
             (LET e == Into_Either_Breadth_NumRect(arg)
              IN  [this EXCEPT !.padding =
                      UiRect_from(IF e.tag = "Left" THEN NumRect_all(e.value)
                                  ELSE e.value)])
      [] setter = "hide_overflow" ->
             [this EXCEPT !.overflow = Overflow_Hidden]
      [] setter = "show_overflow" ->
             [this EXCEPT !.overflow = Overflow_Visible]
      [] setter = "min_size" -> [this EXCEPT !.min_size = arg]
      [] setter = "size" -> [this EXCEPT !.size = arg]
      [] setter = "max_size" -> [this EXCEPT !.max_size = arg]
      [] setter = "align_self" -> [this EXCEPT !.align_self = arg]
      [] setter = "align_items" -> [this EXCEPT !.align_items = arg]
      [] setter = "align_content" -> [this EXCEPT !.align_content = arg]
      [] setter = "justify_content" -> [this EXCEPT !.justify_content = arg]

\* impl StyleBuilderExt for &mut Style
StyleBuilderExt_MutStyle(this, setter, arg) ==
    CASE setter = "left" -> [this EXCEPT !.position.left = arg]
      [] setter = "right" -> [this EXCEPT !.position.right = arg]
      [] setter = "top" -> [this EXCEPT !.position.top = arg]
      [] setter = "bottom" -> [this EXCEPT !.position.bottom = arg]
      [] setter = "display" -> [this EXCEPT !.display = Display_Flex]
      [] setter = "disable" -> [this EXCEPT !.display = Display_None]
      [] setter = "row" -> [this EXCEPT !.flex_direction = FlexDirection_Row]
      [] setter = "column" ->
             [this EXCEPT !.flex_direction = FlexDirection_Column]
      [] setter = "row_reverse" ->
             [this EXCEPT !.flex_direction = FlexDirection_RowReverse]
      [] setter = "column_reverse" ->
             [this EXCEPT !.flex_direction = FlexDirection_ColumnReverse]
      [] setter = "wrap" -> [this EXCEPT !.flex_wrap = FlexWrap_Wrap]
      [] setter = "wrap_reverse" ->
             [this EXCEPT !.flex_wrap = FlexWrap_WrapReverse]
      [] setter = "absolute" ->
             [this EXCEPT !.position_type = PositionType_Absolute]
      [] setter = "relative" ->
             [this EXCEPT !.position_type = PositionType_Relative]
      [] setter = "grow" -> [this EXCEPT !.flex_grow = arg]
      [] setter = "shrink" -> [this EXCEPT !.flex_shrink = arg]
      [] setter = "basis" -> [this EXCEPT !.flex_basis = arg]
      [] setter = "min_width" -> [this EXCEPT !.min_size.width = arg]
      [] setter = "width" -> [this EXCEPT !.size.width = arg]
      [] setter = "max_width" -> [this EXCEPT !.max_size.width = arg]
      [] setter = "min_height" -> [this EXCEPT !.min_size.height = arg]
      [] setter = "height" -> [this EXCEPT !.size.height = arg]
      [] setter = "max_height" -> [this EXCEPT !.max_size.height = arg]
      [] setter = "margin" ->
             (LET e == Into_Either_Val_UiRect(arg)
              IN  IF e.tag = "Left"
                  THEN [this EXCEPT !.margin = UiRect_all(e.value)]
                  ELSE [this EXCEPT !.margin = e.value])
      [] setter = "border" ->
             (LET e == Into_Either_Breadth_NumRect(arg)
              IN  [this EXCEPT !.border =
                      UiRect_from(IF e.tag = "Left" THEN NumRect_all(e.value)
                                  ELSE e.value)])
      [] setter = "padding" ->
             (LET e == Into_Either_Breadth_NumRect(arg)
              IN  [this EXCEPT !.padding =
                      UiRect_from(IF e.tag = "Left" THEN NumRect_all(e.value)
                                  ELSE e.value)])
      [] setter = "hide_overflow" ->
             [this EXCEPT !.overflow = Overflow_Hidden]
      [] setter = "show_overflow" ->
             [this EXCEPT !.overflow = Overflow_Visible]
      [] setter = "min_size" -> [this EXCEPT !.min_size = arg]
      [] setter = "size" -> [this EXCEPT !.size = arg]
      [] setter = "max_size" -> [this EXCEPT !.max_size = arg]
      [] setter = "align_self" -> [this EXCEPT !.align_self = arg]
      [] setter = "align_items" -> [this EXCEPT !.align_items = arg]
      [] setter = "align_content" -> [this EXCEPT !.align_content = arg]
      [] setter = "justify_content" -> [this EXCEPT !.justify_content = arg]

\* impl StyleBuilderExt for NodeBundle: left is self.style(|style|
\* style.left(left)), and every other setter is (&mut self.style).setter(arg);
\* self with the setter of its own name and its own argument
StyleBuilderExt_NodeBundle(this, setter, arg) ==
    IF setter = "left"
    THEN NodeBundle_style(this,
             [st \in {this.style} |->
                 StyleBuilderExt_MutStyle(st, "left", arg)])
    ELSE [this EXCEPT !.style =
             StyleBuilderExt_MutStyle(this.style, setter, arg)]

(***************************************************************************)
(* The state machine: one action per call.                                 *)
(***************************************************************************)
NoRet == [tag |-> "None"]

Init ==
    /\ breadth \in Breadths
    /\ style = NotBuilt
    /\ node = NotBuilt
    /\ chain = 0
    /\ call = [op |-> "new"]
    /\ ret = NoRet

TryAdd ==
    \E rhs \in Breadths :
        /\ call' = [op |-> "try_add", self |-> breadth, rhs |-> rhs]
        /\ ret' = try_add(breadth, rhs)
        /\ UNCHANGED <<breadth, style, node, chain>>

TryAddAssign ==
    \E rhs \in Breadths :
        LET r == try_add_assign(breadth, rhs)
        IN  /\ InRange(r.self.value)
            /\ call' = [op |-> "try_add_assign", self |-> breadth, rhs |-> rhs]
            /\ breadth' = r.self
            /\ UNCHANGED <<style, node, chain>>
            /\ ret' = r.ret

TrySub ==
    \E rhs \in Breadths :
        /\ call' = [op |-> "try_sub", self |-> breadth, rhs |-> rhs]
        /\ ret' = try_sub(breadth, rhs)
        /\ UNCHANGED <<breadth, style, node, chain>>

TrySubAssign ==
    \E rhs \in Breadths :
        LET r == try_sub_assign(breadth, rhs)
        IN  /\ InRange(r.self.value)
            /\ call' = [op |-> "try_sub_assign", self |-> breadth, rhs |-> rhs]
            /\ breadth' = r.self
            /\ UNCHANGED <<style, node, chain>>
            /\ ret' = r.ret

Evaluate ==
    \E size \in Sizes :
        /\ call' = [op |-> "evaluate", self |-> breadth, size |-> size]
        /\ ret' = evaluate(breadth, size)
        /\ UNCHANGED <<breadth, style, node, chain>>

AddWithSize ==
    \E rhs \in Breadths, size \in Sizes :
        /\ call' = [op |-> "add_with_size", self |-> breadth, rhs |-> rhs,
                    size |-> size]
        /\ ret' = add_with_size(breadth, rhs, size)
        /\ UNCHANGED <<breadth, style, node, chain>>

AddAssignWithSize ==
    \E rhs \in Breadths, size \in Sizes :
        LET r == add_assign_with_size(breadth, rhs, size)
        IN  /\ InRange(r.value)
            /\ call' = [op |-> "add_assign_with_size", self |-> breadth,
                        rhs |-> rhs, size |-> size]
            /\ breadth' = r
            /\ UNCHANGED <<style, node, chain>>
            /\ ret' = Unit

SubWithSize ==
    \E rhs \in Breadths, size \in Sizes :
        /\ call' = [op |-> "sub_with_size", self |-> breadth, rhs |-> rhs,
                    size |-> size]
        /\ ret' = sub_with_size(breadth, rhs, size)
        /\ UNCHANGED <<breadth, style, node, chain>>

SubAssignWithSize ==
    \E rhs \in Breadths, size \in Sizes :
        LET r == sub_assign_with_size(breadth, rhs, size)
        IN  /\ InRange(r.value)
            /\ call' = [op |-> "sub_assign_with_size", self |-> breadth,
                        rhs |-> rhs, size |-> size]
            /\ breadth' = r
            /\ UNCHANGED <<style, node, chain>>
            /\ ret' = Unit

\* breadth * rhs: Breadth is Copy, the receiver is left as it was
Mul ==
    \E rhs \in Factors :
        /\ call' = [op |-> "mul", self |-> breadth, rhs |-> rhs]
        /\ ret' = mul(breadth, rhs)
        /\ UNCHANGED <<breadth, style, node, chain>>

\* breadth *= rhs
MulAssign ==
    \E rhs \in Factors :
        LET r == mul_assign(breadth, rhs)
        IN  /\ InRange(r.value)
            /\ call' = [op |-> "mul_assign", self |-> breadth, rhs |-> rhs]
            /\ breadth' = r
            /\ UNCHANGED <<style, node, chain>>
            /\ ret' = Unit

\* breadth / rhs
Div ==
    \E rhs \in Factors :
        /\ call' = [op |-> "div", self |-> breadth, rhs |-> rhs]
        /\ ret' = div(breadth, rhs)
        /\ UNCHANGED <<breadth, style, node, chain>>

\* breadth /= rhs
DivAssign ==
    \E rhs \in Factors :
        LET r == div_assign(breadth, rhs)
        IN  /\ InRange(r.value)
            /\ call' = [op |-> "div_assign", self |-> breadth, rhs |-> rhs]
            /\ breadth' = r
            /\ UNCHANGED <<style, node, chain>>
            /\ ret' = Unit

\* Val::from(breadth): Breadth is Copy, the receiver is left as it was
ValFrom ==
    /\ call' = [op |-> "Val::from", self |-> breadth]
    /\ ret' = Val_from(breadth)
    /\ UNCHANGED <<breadth, style, node, chain>>

\* Breadth::try_from(value)
BreadthTryFrom ==
    \E value \in Vals :
        /\ call' = [op |-> "Breadth::try_from", value |-> value]
        /\ ret' = Breadth_try_from(value)
        /\ UNCHANGED <<breadth, style, node, chain>>

NumRectNew ==
    \E left \in Edges, right \in Edges, top \in Edges, bottom \in Edges :
        /\ call' = [op |-> "NumRect::new", left |-> left, right |-> right,
                    top |-> top, bottom |-> bottom]
        /\ ret' = NumRect_new(left, right, top, bottom)
        /\ UNCHANGED <<breadth, style, node, chain>>

NumRectAll ==
    \E value \in Breadths :
        /\ call' = [op |-> "NumRect::all", value |-> value]
        /\ ret' = NumRect_all(value)
        /\ UNCHANGED <<breadth, style, node, chain>>

NumRectHorizontal ==
    \E value \in Breadths :
        /\ call' = [op |-> "NumRect::horizontal", value |-> value]
        /\ ret' = NumRect_horizontal(value)
        /\ UNCHANGED <<breadth, style, node, chain>>

NumRectVertical ==
    \E value \in Breadths :
        /\ call' = [op |-> "NumRect::vertical", value |-> value]
        /\ ret' = NumRect_vertical(value)
        /\ UNCHANGED <<breadth, style, node, chain>>

NumRectLeft ==
    \E value \in Breadths :
        /\ call' = [op |-> "NumRect::left", value |-> value]
        /\ ret' = NumRect_left(value)
        /\ UNCHANGED <<breadth, style, node, chain>>

NumRectRight ==
    \E value \in Breadths :
        /\ call' = [op |-> "NumRect::right", value |-> value]
        /\ ret' = NumRect_right(value)
        /\ UNCHANGED <<breadth, style, node, chain>>

NumRectTop ==
    \E value \in Breadths :
        /\ call' = [op |-> "NumRect::top", value |-> value]
        /\ ret' = NumRect_top(value)
        /\ UNCHANGED <<breadth, style, node, chain>>

NumRectBottom ==
    \E value \in Breadths :
        /\ call' = [op |-> "NumRect::bottom", value |-> value]
        /\ ret' = NumRect_bottom(value)
        /\ UNCHANGED <<breadth, style, node, chain>>

\* UiRect::from(rect), rect built by NumRect::new
UiRectFrom ==
    \E left \in Edges, right \in Edges, top \in Edges, bottom \in Edges :
        LET rect == NumRect_new(left, right, top, bottom)
        IN  /\ call' = [op |-> "UiRect::from", rect |-> rect]
            /\ ret' = UiRect_from(rect)
            /\ UNCHANGED <<breadth, style, node, chain>>

Next ==
    \/ TryAdd
    \/ TryAddAssign
    \/ TrySub
    \/ TrySubAssign
    \/ Evaluate
    \/ AddWithSize
    \/ AddAssignWithSize
    \/ SubWithSize
    \/ SubAssignWithSize
    \/ Mul
    \/ MulAssign
    \/ Div
    \/ DivAssign
    \/ ValFrom
    \/ BreadthTryFrom

Spec == Init /\ [][Next]_vars

\* the calls of NumRect, which neither read nor write a Breadth receiver
RectNext ==
    \/ NumRectNew
    \/ NumRectAll
    \/ NumRectHorizontal
    \/ NumRectVertical
    \/ NumRectLeft
    \/ NumRectRight
    \/ NumRectTop
    \/ NumRectBottom
    \/ UiRectFrom

SpecRect == Init /\ [][RectNext]_vars

(***************************************************************************)
(* The builder chains: one action per setter of StyleBuilderExt.            *)
(***************************************************************************)
\* the arguments given to the setters
StyleVals == {ValPx(Lit(1)), ValAuto}

StyleFloats == {Lit(0), Lit(2)}

StyleSizes ==
    {[width |-> ValPx(Lit(1)), height |-> ValPercent(Lit(2))],
     [width |-> ValAuto, height |-> ValUndefined]}

AlignSelfs == {[variant |-> "AlignSelf::Center"], [variant |-> "AlignSelf::FlexEnd"]}

AlignItemss == {[variant |-> "AlignItems::Center"], [variant |-> "AlignItems::FlexEnd"]}

AlignContents == {[variant |-> "AlignContent::Center"], [variant |-> "AlignContent::SpaceBetween"]}

JustifyContents == {[variant |-> "JustifyContent::Center"], [variant |-> "JustifyContent::SpaceBetween"]}

\* a margin is given as one Val or as a UiRect
MarginArgs ==
    StyleVals \cup {[left |-> ValPx(Lit(1)), right |-> ValPx(Lit(2)),
                    top |-> ValPercent(Lit(1)), bottom |-> ValAuto]}

\* a border or a padding is given as one Breadth or as a NumRect
EdgeArgs ==
    Edges \cup {NumRect_new(Px(Lit(1)), Px(Lit(2)),
                            Percent(Lit(1)), Percent(Lit(2))),
                NumRect_horizontal(Percent(Lit(1)))}

Colors == {[Color |-> "Color::RED"], [Color |-> "Color::BLUE"]}

\* the types that implement StyleBuilderExt
StyleImpls == {"Style", "<&mut Style>"}

NodeImpls == {"NodeBundle"}

Impls == StyleImpls \cup NodeImpls

\* the builder calls neither read nor write the Breadth receiver: one is enough
BuilderInit == Init /\ breadth = Breadth_default

\* the receiver of the setters of the impl has been made
Built(impl) ==
    IF impl = "NodeBundle" THEN node # NotBuilt ELSE style # NotBuilt

\* one more call in a chain, of the setter of the impl: the Style of the chain
\* for the impls for Style and &mut Style, its NodeBundle for the impl for
\* NodeBundle; every setter returns its receiver
Chained(impl, setter, arg) ==
    LET st == CASE impl = "Style" -> StyleBuilderExt_Style(style, setter, arg)
                [] impl = "<&mut Style>" ->
                       StyleBuilderExt_MutStyle(style, setter, arg)
                [] impl = "NodeBundle" -> style
        nd == IF impl = "NodeBundle"
              THEN StyleBuilderExt_NodeBundle(node, setter, arg)
              ELSE node
    IN  [style |-> st,
         node |-> nd,
         call |-> [op |-> impl \o "::" \o setter, impl |-> impl,
                   setter |-> setter,
                   self |-> IF impl = "NodeBundle" THEN node ELSE style,
                   arg |-> arg],
         ret |-> IF impl = "NodeBundle" THEN nd ELSE st]

CallLeft(impls) ==
    \E impl \in impls, arg \in StyleVals :
        LET next == Chained(impl, "left", arg)
        IN  /\ Built(impl)
            /\ chain < MaxChain
            /\ chain' = chain + 1
            /\ style' = next.style
            /\ node' = next.node
            /\ call' = next.call
            /\ ret' = next.ret
            /\ UNCHANGED breadth

CallRight(impls) ==
    \E impl \in impls, arg \in StyleVals :
        LET next == Chained(impl, "right", arg)
        IN  /\ Built(impl)
            /\ chain < MaxChain
            /\ chain' = chain + 1
            /\ style' = next.style
            /\ node' = next.node
            /\ call' = next.call
            /\ ret' = next.ret
            /\ UNCHANGED breadth

CallTop(impls) ==
    \E impl \in impls, arg \in StyleVals :
        LET next == Chained(impl, "top", arg)
        IN  /\ Built(impl)
            /\ chain < MaxChain
            /\ chain' = chain + 1
            /\ style' = next.style
            /\ node' = next.node
            /\ call' = next.call
            /\ ret' = next.ret
            /\ UNCHANGED breadth

CallBottom(impls) ==
    \E impl \in impls, arg \in StyleVals :
        LET next == Chained(impl, "bottom", arg)
        IN  /\ Built(impl)
            /\ chain < MaxChain
            /\ chain' = chain + 1
            /\ style' = next.style
            /\ node' = next.node
            /\ call' = next.call
            /\ ret' = next.ret
            /\ UNCHANGED breadth

CallDisplay(impls) ==
    \E impl \in impls :
        LET next == Chained(impl, "display", Unit)
        IN  /\ Built(impl)
            /\ chain < MaxChain
            /\ chain' = chain + 1
            /\ style' = next.style
            /\ node' = next.node
            /\ call' = next.call
            /\ ret' = next.ret
            /\ UNCHANGED breadth

CallDisable(impls) ==
    \E impl \in impls :
        LET next == Chained(impl, "disable", Unit)
        IN  /\ Built(impl)
            /\ chain < MaxChain
            /\ chain' = chain + 1
            /\ style' = next.style
            /\ node' = next.node
            /\ call' = next.call
            /\ ret' = next.ret
            /\ UNCHANGED breadth

CallRow(impls) ==
    \E impl \in impls :
        LET next == Chained(impl, "row", Unit)
        IN  /\ Built(impl)
            /\ chain < MaxChain
            /\ chain' = chain + 1
            /\ style' = next.style
            /\ node' = next.node
            /\ call' = next.call
            /\ ret' = next.ret
            /\ UNCHANGED breadth

CallColumn(impls) ==
    \E impl \in impls :
        LET next == Chained(impl, "column", Unit)
        IN  /\ Built(impl)
            /\ chain < MaxChain
            /\ chain' = chain + 1
            /\ style' = next.style
            /\ node' = next.node
            /\ call' = next.call
            /\ ret' = next.ret
            /\ UNCHANGED breadth

CallRowReverse(impls) ==
    \E impl \in impls :
        LET next == Chained(impl, "row_reverse", Unit)
        IN  /\ Built(impl)
            /\ chain < MaxChain
            /\ chain' = chain + 1
            /\ style' = next.style
            /\ node' = next.node
            /\ call' = next.call
            /\ ret' = next.ret
            /\ UNCHANGED breadth

CallColumnReverse(impls) ==
    \E impl \in impls :
        LET next == Chained(impl, "column_reverse", Unit)
        IN  /\ Built(impl)
            /\ chain < MaxChain
            /\ chain' = chain + 1
            /\ style' = next.style
            /\ node' = next.node
            /\ call' = next.call
            /\ ret' = next.ret
            /\ UNCHANGED breadth

CallWrap(impls) ==
    \E impl \in impls :
        LET next == Chained(impl, "wrap", Unit)
        IN  /\ Built(impl)
            /\ chain < MaxChain
            /\ chain' = chain + 1
            /\ style' = next.style
            /\ node' = next.node
            /\ call' = next.call
            /\ ret' = next.ret
            /\ UNCHANGED breadth

CallWrapReverse(impls) ==
    \E impl \in impls :
        LET next == Chained(impl, "wrap_reverse", Unit)
        IN  /\ Built(impl)
            /\ chain < MaxChain
            /\ chain' = chain + 1
            /\ style' = next.style
            /\ node' = next.node
            /\ call' = next.call
            /\ ret' = next.ret
            /\ UNCHANGED breadth

CallAbsolute(impls) ==
    \E impl \in impls :
        LET next == Chained(impl, "absolute", Unit)
        IN  /\ Built(impl)
            /\ chain < MaxChain
            /\ chain' = chain + 1
            /\ style' = next.style
            /\ node' = next.node
            /\ call' = next.call
            /\ ret' = next.ret
            /\ UNCHANGED breadth

CallRelative(impls) ==
    \E impl \in impls :
        LET next == Chained(impl, "relative", Unit)
        IN  /\ Built(impl)
            /\ chain < MaxChain
            /\ chain' = chain + 1
            /\ style' = next.style
            /\ node' = next.node
            /\ call' = next.call
            /\ ret' = next.ret
            /\ UNCHANGED breadth

CallGrow(impls) ==
    \E impl \in impls, arg \in StyleFloats :
        LET next == Chained(impl, "grow", arg)
        IN  /\ Built(impl)
            /\ chain < MaxChain
            /\ chain' = chain + 1
            /\ style' = next.style
            /\ node' = next.node
            /\ call' = next.call
            /\ ret' = next.ret
            /\ UNCHANGED breadth

CallShrink(impls) ==
    \E impl \in impls, arg \in StyleFloats :
        LET next == Chained(impl, "shrink", arg)
        IN  /\ Built(impl)
            /\ chain < MaxChain
            /\ chain' = chain + 1
            /\ style' = next.style
            /\ node' = next.node
            /\ call' = next.call
            /\ ret' = next.ret
            /\ UNCHANGED breadth

CallBasis(impls) ==
    \E impl \in impls, arg \in StyleVals :
        LET next == Chained(impl, "basis", arg)
        IN  /\ Built(impl)
            /\ chain < MaxChain
            /\ chain' = chain + 1
            /\ style' = next.style
            /\ node' = next.node
            /\ call' = next.call
            /\ ret' = next.ret
            /\ UNCHANGED breadth

CallMinWidth(impls) ==
    \E impl \in impls, arg \in StyleVals :
        LET next == Chained(impl, "min_width", arg)
        IN  /\ Built(impl)
            /\ chain < MaxChain
            /\ chain' = chain + 1
            /\ style' = next.style
            /\ node' = next.node
            /\ call' = next.call
            /\ ret' = next.ret
            /\ UNCHANGED breadth

CallWidth(impls) ==
    \E impl \in impls, arg \in StyleVals :
        LET next == Chained(impl, "width", arg)
        IN  /\ Built(impl)
            /\ chain < MaxChain
            /\ chain' = chain + 1
            /\ style' = next.style
            /\ node' = next.node
            /\ call' = next.call
            /\ ret' = next.ret
            /\ UNCHANGED breadth

CallMaxWidth(impls) ==
    \E impl \in impls, arg \in StyleVals :
        LET next == Chained(impl, "max_width", arg)
        IN  /\ Built(impl)
            /\ chain < MaxChain
            /\ chain' = chain + 1
            /\ style' = next.style
            /\ node' = next.node
            /\ call' = next.call
            /\ ret' = next.ret
            /\ UNCHANGED breadth

CallMinHeight(impls) ==
    \E impl \in impls, arg \in StyleVals :
        LET next == Chained(impl, "min_height", arg)
        IN  /\ Built(impl)
            /\ chain < MaxChain
            /\ chain' = chain + 1
            /\ style' = next.style
            /\ node' = next.node
            /\ call' = next.call
            /\ ret' = next.ret
            /\ UNCHANGED breadth

CallHeight(impls) ==
    \E impl \in impls, arg \in StyleVals :
        LET next == Chained(impl, "height", arg)
        IN  /\ Built(impl)
            /\ chain < MaxChain
            /\ chain' = chain + 1
            /\ style' = next.style
            /\ node' = next.node
            /\ call' = next.call
            /\ ret' = next.ret
            /\ UNCHANGED breadth

CallMaxHeight(impls) ==
    \E impl \in impls, arg \in StyleVals :
        LET next == Chained(impl, "max_height", arg)
        IN  /\ Built(impl)
            /\ chain < MaxChain
            /\ chain' = chain + 1
            /\ style' = next.style
            /\ node' = next.node
            /\ call' = next.call
            /\ ret' = next.ret
            /\ UNCHANGED breadth

CallMargin(impls) ==
    \E impl \in impls, arg \in MarginArgs :
        LET next == Chained(impl, "margin", arg)
        IN  /\ Built(impl)
            /\ chain < MaxChain
            /\ chain' = chain + 1
            /\ style' = next.style
            /\ node' = next.node
            /\ call' = next.call
            /\ ret' = next.ret
            /\ UNCHANGED breadth

CallBorder(impls) ==
    \E impl \in impls, arg \in EdgeArgs :
        LET next == Chained(impl, "border", arg)
        IN  /\ Built(impl)
            /\ chain < MaxChain
            /\ chain' = chain + 1
            /\ style' = next.style
            /\ node' = next.node
            /\ call' = next.call
            /\ ret' = next.ret
            /\ UNCHANGED breadth

CallPadding(impls) ==
    \E impl \in impls, arg \in EdgeArgs :
        LET next == Chained(impl, "padding", arg)
        IN  /\ Built(impl)
            /\ chain < MaxChain
            /\ chain' = chain + 1
            /\ style' = next.style
            /\ node' = next.node
            /\ call' = next.call
            /\ ret' = next.ret
            /\ UNCHANGED breadth

CallHideOverflow(impls) ==
    \E impl \in impls :
        LET next == Chained(impl, "hide_overflow", Unit)
        IN  /\ Built(impl)
            /\ chain < MaxChain
            /\ chain' = chain + 1
            /\ style' = next.style
            /\ node' = next.node
            /\ call' = next.call
            /\ ret' = next.ret
            /\ UNCHANGED breadth

CallShowOverflow(impls) ==
    \E impl \in impls :
        LET next == Chained(impl, "show_overflow", Unit)
        IN  /\ Built(impl)
            /\ chain < MaxChain
            /\ chain' = chain + 1
            /\ style' = next.style
            /\ node' = next.node
            /\ call' = next.call
            /\ ret' = next.ret
            /\ UNCHANGED breadth

CallMinSize(impls) ==
    \E impl \in impls, arg \in StyleSizes :
        LET next == Chained(impl, "min_size", arg)
        IN  /\ Built(impl)
            /\ chain < MaxChain
            /\ chain' = chain + 1
            /\ style' = next.style
            /\ node' = next.node
            /\ call' = next.call
            /\ ret' = next.ret
            /\ UNCHANGED breadth

CallSize(impls) ==
    \E impl \in impls, arg \in StyleSizes :
        LET next == Chained(impl, "size", arg)
        IN  /\ Built(impl)
            /\ chain < MaxChain
            /\ chain' = chain + 1
            /\ style' = next.style
            /\ node' = next.node
            /\ call' = next.call
            /\ ret' = next.ret
            /\ UNCHANGED breadth

CallMaxSize(impls) ==
    \E impl \in impls, arg \in StyleSizes :
        LET next == Chained(impl, "max_size", arg)
        IN  /\ Built(impl)
            /\ chain < MaxChain
            /\ chain' = chain + 1
            /\ style' = next.style
            /\ node' = next.node
            /\ call' = next.call
            /\ ret' = next.ret
            /\ UNCHANGED breadth

CallAlignSelf(impls) ==
    \E impl \in impls, arg \in AlignSelfs :
        LET next == Chained(impl, "align_self", arg)
        IN  /\ Built(impl)
            /\ chain < MaxChain
            /\ chain' = chain + 1
            /\ style' = next.style
            /\ node' = next.node
            /\ call' = next.call
            /\ ret' = next.ret
            /\ UNCHANGED breadth

CallAlignItems(impls) ==
    \E impl \in impls, arg \in AlignItemss :
        LET next == Chained(impl, "align_items", arg)
        IN  /\ Built(impl)
            /\ chain < MaxChain
            /\ chain' = chain + 1
            /\ style' = next.style
            /\ node' = next.node
            /\ call' = next.call
            /\ ret' = next.ret
            /\ UNCHANGED breadth

CallAlignContent(impls) ==
    \E impl \in impls, arg \in AlignContents :
        LET next == Chained(impl, "align_content", arg)
        IN  /\ Built(impl)
            /\ chain < MaxChain
            /\ chain' = chain + 1
            /\ style' = next.style
            /\ node' = next.node
            /\ call' = next.call
            /\ ret' = next.ret
            /\ UNCHANGED breadth

CallJustifyContent(impls) ==
    \E impl \in impls, arg \in JustifyContents :
        LET next == Chained(impl, "justify_content", arg)
        IN  /\ Built(impl)
            /\ chain < MaxChain
            /\ chain' = chain + 1
            /\ style' = next.style
            /\ node' = next.node
            /\ call' = next.call
            /\ ret' = next.ret
            /\ UNCHANGED breadth

\* fn style
NewStyle ==
    /\ style' = Style_default
    /\ chain' = 0
    /\ call' = [op |-> "style"]
    /\ ret' = style'
    /\ UNCHANGED <<breadth, node>>

\* fn node
NewNode ==
    /\ node' = NodeBundle_default
    /\ chain' = 0
    /\ call' = [op |-> "node"]
    /\ ret' = node'
    /\ UNCHANGED <<breadth, style>>

NodeBundleColor ==
    \E color \in Colors :
        /\ node # NotBuilt
        /\ chain < MaxChain
        /\ node' = NodeBundle_color(node, color)
        /\ chain' = chain + 1
        /\ call' = [op |-> "NodeBundle::color", self |-> node, arg |-> color]
        /\ ret' = node'
        /\ UNCHANGED <<breadth, style>>

\* the chains on a Style, by value and by mutable reference
StyleNext ==
    \/ NewStyle
    \/ CallLeft(StyleImpls)
    \/ CallRight(StyleImpls)
    \/ CallTop(StyleImpls)
    \/ CallBottom(StyleImpls)
    \/ CallDisplay(StyleImpls)
    \/ CallDisable(StyleImpls)
    \/ CallRow(StyleImpls)
    \/ CallColumn(StyleImpls)
    \/ CallRowReverse(StyleImpls)
    \/ CallColumnReverse(StyleImpls)
    \/ CallWrap(StyleImpls)
    \/ CallWrapReverse(StyleImpls)
    \/ CallAbsolute(StyleImpls)
    \/ CallRelative(StyleImpls)
    \/ CallGrow(StyleImpls)
    \/ CallShrink(StyleImpls)
    \/ CallBasis(StyleImpls)
    \/ CallMinWidth(StyleImpls)
    \/ CallWidth(StyleImpls)
    \/ CallMaxWidth(StyleImpls)
    \/ CallMinHeight(StyleImpls)
    \/ CallHeight(StyleImpls)
    \/ CallMaxHeight(StyleImpls)
    \/ CallMargin(StyleImpls)
    \/ CallBorder(StyleImpls)
    \/ CallPadding(StyleImpls)
    \/ CallHideOverflow(StyleImpls)
    \/ CallShowOverflow(StyleImpls)
    \/ CallMinSize(StyleImpls)
    \/ CallSize(StyleImpls)
    \/ CallMaxSize(StyleImpls)
    \/ CallAlignSelf(StyleImpls)
    \/ CallAlignItems(StyleImpls)
    \/ CallAlignContent(StyleImpls)
    \/ CallJustifyContent(StyleImpls)

SpecStyle == BuilderInit /\ [][StyleNext]_vars

\* the chains on a NodeBundle
NodeNext ==
    \/ NewNode
    \/ NodeBundleColor
    \/ CallLeft(NodeImpls)
    \/ CallRight(NodeImpls)
    \/ CallTop(NodeImpls)
    \/ CallBottom(NodeImpls)
    \/ CallDisplay(NodeImpls)
    \/ CallDisable(NodeImpls)
    \/ CallRow(NodeImpls)
    \/ CallColumn(NodeImpls)
    \/ CallRowReverse(NodeImpls)
    \/ CallColumnReverse(NodeImpls)
    \/ CallWrap(NodeImpls)
    \/ CallWrapReverse(NodeImpls)
    \/ CallAbsolute(NodeImpls)
    \/ CallRelative(NodeImpls)
    \/ CallGrow(NodeImpls)
    \/ CallShrink(NodeImpls)
    \/ CallBasis(NodeImpls)
    \/ CallMinWidth(NodeImpls)
    \/ CallWidth(NodeImpls)
    \/ CallMaxWidth(NodeImpls)
    \/ CallMinHeight(NodeImpls)
    \/ CallHeight(NodeImpls)
    \/ CallMaxHeight(NodeImpls)
    \/ CallMargin(NodeImpls)
    \/ CallBorder(NodeImpls)
    \/ CallPadding(NodeImpls)
    \/ CallHideOverflow(NodeImpls)
    \/ CallShowOverflow(NodeImpls)
    \/ CallMinSize(NodeImpls)
    \/ CallSize(NodeImpls)
    \/ CallMaxSize(NodeImpls)
    \/ CallAlignSelf(NodeImpls)
    \/ CallAlignItems(NodeImpls)
    \/ CallAlignContent(NodeImpls)
    \/ CallJustifyContent(NodeImpls)

SpecNode == BuilderInit /\ [][NodeNext]_vars

\* the chains of the setters that take an Either<Breadth, NumRect>, on a
\* Style and on a NodeBundle
EdgeNext ==
    \/ NewStyle
    \/ NewNode
    \/ CallBorder(Impls)
    \/ CallPadding(Impls)

SpecEdge == BuilderInit /\ [][EdgeNext]_vars

(***************************************************************************)
(* Properties.                                                             *)
(***************************************************************************)
SameVariant(a, b) == a.variant = b.variant

IsF32(x) == DOMAIN x = {"num", "den"}

\* C1: try_add(a, b) is Ok exactly when a and b have the same variant, and
\* then it is that variant with payload a.value + b.value; for a mixed pair
\* it is Err(NonIdenticalVariants).
C1_TryAdd ==
    call.op = "try_add" =>
        LET a == call.self
            b == call.rhs
        IN  /\ (ret.tag = "Ok") <=> SameVariant(a, b)
            /\ (a.variant = "Px" /\ b.variant = "Px")
                   => ret = Ok(Px(FAdd(a.value, b.value)))
            /\ (a.variant = "Percent" /\ b.variant = "Percent")
                   => ret = Ok(Percent(FAdd(a.value, b.value)))
            /\ ~SameVariant(a, b) => ret = Err(NonIdenticalVariants)

C1_Witness ==
    /\ call.op = "try_add"
    /\ call.self = Percent(Lit(1))
    /\ call.rhs = Percent(Lit(2))
    /\ ret = Ok(Percent(Lit(3)))

\* C2: try_sub(a, b) is Ok exactly when a and b have the same variant, and
\* then it is that variant with payload a.value - b.value; for a mixed pair
\* it is Err(NonIdenticalVariants).
C2_TrySub ==
    call.op = "try_sub" =>
        LET a == call.self
            b == call.rhs
        IN  /\ (ret.tag = "Ok") <=> SameVariant(a, b)
            /\ (a.variant = "Px" /\ b.variant = "Px")
                   => ret = Ok(Px(FSub(a.value, b.value)))
            /\ (a.variant = "Percent" /\ b.variant = "Percent")
                   => ret = Ok(Percent(FSub(a.value, b.value)))
            /\ ~SameVariant(a, b) => ret = Err(NonIdenticalVariants)

C2_Witness ==
    /\ call.op = "try_sub"
    /\ call.self = Px(Lit(2))
    /\ call.rhs = Px(Lit(-1))
    /\ ret = Ok(Px(Lit(3)))

\* C3: try_add_assign and try_sub_assign called with operands of different
\* variants return Err(NonIdenticalVariants) and leave the receiver as it
\* was before the call.
C3_AssignFailureLeavesReceiver ==
    (/\ call.op \in {"try_add_assign", "try_sub_assign"}
     /\ ~SameVariant(call.self, call.rhs))
        => /\ ret = Err(NonIdenticalVariants)
           /\ breadth = call.self

C3_Witness ==
    /\ call.op = "try_sub_assign"
    /\ call.self = Percent(Lit(2))
    /\ call.rhs = Px(Lit(1))
    /\ ret = Err(NonIdenticalVariants)
    /\ breadth = Percent(Lit(2))

\* C4: sub_assign_with_size(a, b, size) sets a to
\* Px(evaluate(a, size) - evaluate(b, size)), the value of sub_with_size.
C4_SubAssignWithSizeSubtracts ==
    call.op = "sub_assign_with_size" =>
        breadth = Px(FSub(evaluate(call.self, call.size),
                          evaluate(call.rhs, call.size)))

\* C5: evaluate returns the payload of a Px unchanged, whatever the size,
\* and size * x / 100 for Percent(x).
C5_Evaluate ==
    call.op = "evaluate" =>
        /\ call.self.variant = "Px" => ret = call.self.value
        /\ call.self.variant = "Percent"
               => ret = FDiv(FMul(call.size, call.self.value), Lit(100))

C5_Witness ==
    /\ call.op = "evaluate"
    /\ call.self = Percent(Lit(2))
    /\ call.size = Lit(250)
    /\ ret = Lit(5)

\* C6: Breadth::try_from(v) is Ok(Px(x)) for Val::Px(x), Ok(Percent(x)) for
\* Val::Percent(x) and Err(NonEvaluateable) for Auto and Undefined.
C6_TryFromVal ==
    call.op = "Breadth::try_from" =>
        LET v == call.value
        IN  /\ v.variant = "Val::Px" => ret = Ok(Px(v.value))
            /\ v.variant = "Val::Percent" => ret = Ok(Percent(v.value))
            /\ v \in {ValAuto, ValUndefined} => ret = Err(NonEvaluateable)

C6_Witness ==
    /\ call.op = "Breadth::try_from"
    /\ call.value = ValUndefined
    /\ ret = Err(NonEvaluateable)

\* C7: Val::from(b) is Val::Px(x) for Px(x) and Val::Percent(x) for
\* Percent(x), and never Auto or Undefined.
C7_ValFromBreadth ==
    call.op = "Val::from" =>
        LET b == call.self
        IN  /\ b.variant = "Px" => ret = ValPx(b.value)
            /\ b.variant = "Percent" => ret = ValPercent(b.value)
            /\ ret \notin {ValAuto, ValUndefined}

C7_Witness ==
    /\ call.op = "Val::from"
    /\ call.self = Percent(Lit(-1))
    /\ ret = ValPercent(Lit(-1))

\* C8: a Val::Px or Val::Percent converted to a Breadth and back to a Val
\* is the Val converted.
C8_RoundTrip ==
    (/\ call.op = "Breadth::try_from"
     /\ call.value.variant \in {"Val::Px", "Val::Percent"})
        => /\ ret.tag = "Ok"
           /\ Val_from(ret.value) = call.value

C8_Witness ==
    /\ call.op = "Breadth::try_from"
    /\ call.value = ValPercent(Lit(2))
    /\ ret.tag = "Ok"
    /\ Val_from(ret.value) = ValPercent(Lit(2))

\* C9: add_with_size(a, b, size) returns an f32 for every pair of variants,
\* the sum evaluate(a, size) + evaluate(b, size).
C9_AddWithSize ==
    call.op = "add_with_size" =>
        /\ IsF32(ret)
        /\ ret = FAdd(evaluate(call.self, call.size),
                      evaluate(call.rhs, call.size))

C9_Witness ==
    /\ call.op = "add_with_size"
    /\ call.self = Px(Lit(2))
    /\ call.rhs = Percent(Lit(2))
    /\ call.size = Lit(250)
    /\ ret = Lit(7)

\* C10: sub_with_size(a, b, size) returns an f32 for every pair of
\* variants, the difference evaluate(a, size) - evaluate(b, size).
C10_SubWithSize ==
    call.op = "sub_with_size" =>
        /\ IsF32(ret)
        /\ ret = FSub(evaluate(call.self, call.size),
                      evaluate(call.rhs, call.size))

C10_Witness ==
    /\ call.op = "sub_with_size"
    /\ call.self = Percent(Lit(2))
    /\ call.rhs = Px(Lit(1))
    /\ call.size = Lit(250)
    /\ ret = Lit(4)

\* C11: add_assign_with_size(a, b, size) sets a to
\* Px(add_with_size(a, b, size)), whatever the variants of a and b.
C11_AddAssignWithSize ==
    call.op = "add_assign_with_size" =>
        /\ breadth.variant = "Px"
        /\ breadth.value = add_with_size(call.self, call.rhs, call.size)
        /\ ret = Unit

C11_Witness ==
    /\ call.op = "add_assign_with_size"
    /\ call.self = Percent(Lit(2))
    /\ call.rhs = Percent(Lit(1))
    /\ call.size = Lit(100)
    /\ breadth = Px(Lit(3))

\* C12: try_add_assign (try_sub_assign) called with operands of the same
\* variant returns Ok(()) and leaves in the receiver the value try_add
\* (try_sub) returns for the receiver before the call and the argument.
C12_AssignSuccess ==
    /\ (call.op = "try_add_assign" /\ SameVariant(call.self, call.rhs))
           => /\ ret = Ok(Unit)
              /\ Ok(breadth) = try_add(call.self, call.rhs)
    /\ (call.op = "try_sub_assign" /\ SameVariant(call.self, call.rhs))
           => /\ ret = Ok(Unit)
              /\ Ok(breadth) = try_sub(call.self, call.rhs)

C12_Witness ==
    /\ call.op = "try_add_assign"
    /\ call.self = Px(Lit(2))
    /\ call.rhs = Px(Lit(1))
    /\ ret = Ok(Unit)
    /\ breadth = Px(Lit(3))

IsBreadth(x) ==
    /\ DOMAIN x = {"variant", "value"}
    /\ x.variant \in {"Px", "Percent"}

\* C13: no call other than add_assign_with_size and sub_assign_with_size
\* changes the variant of the receiver: try_add_assign, try_sub_assign,
\* mul_assign and div_assign keep it, whether they succeed or fail.
C13_VariantKept ==
    [][call'.op \notin {"add_assign_with_size", "sub_assign_with_size"}
           => breadth'.variant = breadth.variant]_vars

C13_Witness ==
    /\ call.op = "div_assign"
    /\ call.self = Percent(Lit(2))
    /\ call.rhs = Lit(2)
    /\ breadth = Percent(Lit(1))

\* C14: Breadth * factor is the receiver's variant with the payload
\* multiplied by factor, and mul_assign leaves in the receiver the value
\* Mul returns for the same receiver and factor.
C14_Mul ==
    /\ call.op = "mul"
           => /\ ret = [variant |-> call.self.variant,
                        value |-> FMul(call.self.value, call.rhs)]
              /\ breadth = call.self
    /\ call.op = "mul_assign"
           => /\ breadth = [variant |-> call.self.variant,
                            value |-> FMul(call.self.value, call.rhs)]
              /\ breadth = mul(call.self, call.rhs)

C14_Witness ==
    /\ call.op = "mul_assign"
    /\ call.self = Percent(Lit(2))
    /\ call.rhs = Lit(2)
    /\ breadth = Percent(Lit(4))

\* C15: Breadth / factor is the receiver's variant with the payload divided
\* by factor, for every factor, 0 included: it is a Breadth and never an
\* error; div_assign leaves in the receiver the value Div returns for the
\* same receiver and factor.
C15_Div ==
    /\ call.op = "div"
           => /\ IsBreadth(ret)
              /\ ret = [variant |-> call.self.variant,
                        value |-> FDiv(call.self.value, call.rhs)]
              /\ breadth = call.self
    /\ call.op = "div_assign"
           => /\ ret = Unit
              /\ breadth = [variant |-> call.self.variant,
                            value |-> FDiv(call.self.value, call.rhs)]
              /\ breadth = div(call.self, call.rhs)

C15_Witness ==
    /\ call.op = "div_assign"
    /\ call.self = Percent(Lit(1))
    /\ call.rhs = Lit(0)
    /\ breadth = Percent(PosInf)

\* C16: try_add(a, b) and try_add(b, a) are both Ok with the same value or
\* both Err(NonIdenticalVariants).
C16_TryAddCommutes ==
    call.op = "try_add" =>
        LET ab == ret
            ba == try_add(call.rhs, call.self)
        IN  \/ ab.tag = "Ok" /\ ba.tag = "Ok" /\ ab.value = ba.value
            \/ ab = Err(NonIdenticalVariants) /\ ba = Err(NonIdenticalVariants)

C16_Witness ==
    /\ call.op = "try_add"
    /\ call.self = Px(Lit(1))
    /\ call.rhs = Percent(Lit(2))
    /\ ret = Err(NonIdenticalVariants)
    /\ try_add(call.rhs, call.self) = Err(NonIdenticalVariants)

\* the third operands of a chained sum: the argument values and the least
\* integer whose successor is not an f32
ThirdOperands ==
    Breadths \cup {Px(Lit(2^MantissaBits)), Percent(Lit(2^MantissaBits))}

\* (a + b) + c, the sum a + b being the one the call returned
LeftGrouping(c) == IF ret.tag = "Ok" THEN try_add(ret.value, c) ELSE ret

\* a + (b + c)
RightGrouping(c) ==
    LET bc == try_add(call.rhs, c)
    IN  IF bc.tag = "Ok" THEN try_add(call.self, bc.value) ELSE bc

OneVariant(c) ==
    SameVariant(call.self, call.rhs) /\ SameVariant(call.rhs, c)

\* none of the four additions of the two groupings is rounded
Unrounded(c) ==
    LET a == call.self.value
        b == call.rhs.value
    IN  /\ FAdd(a, b) = ExactSum(a, b)
        /\ FAdd(FAdd(a, b), c.value) = ExactSum(FAdd(a, b), c.value)
        /\ FAdd(b, c.value) = ExactSum(b, c.value)
        /\ FAdd(a, FAdd(b, c.value)) = ExactSum(a, FAdd(b, c.value))

\* C17 as claimed: (a + b) + c and a + (b + c) chained through try_add are
\* the same Ok value or both an error, and the chain succeeds exactly when
\* the three operands share one variant.
C17_TryAddAssociates ==
    call.op = "try_add" =>
        \A c \in ThirdOperands :
            /\ LeftGrouping(c) = RightGrouping(c)
            /\ (LeftGrouping(c).tag = "Ok") <=> OneVariant(c)

\* C17 as amended: the two groupings are both Ok with the same variant or
\* both Err(NonIdenticalVariants), the chain succeeds exactly when the three
\* operands share one variant, and the two Ok values are equal whenever
\* none of the four additions is rounded.
C17_TryAddAssociatesUpToRounding ==
    call.op = "try_add" =>
        \A c \in ThirdOperands :
            LET l == LeftGrouping(c)
                r == RightGrouping(c)
            IN  /\ (l.tag = "Ok") <=> OneVariant(c)
                /\ (r.tag = "Ok") <=> OneVariant(c)
                /\ ~OneVariant(c)
                       => /\ l = Err(NonIdenticalVariants)
                          /\ r = Err(NonIdenticalVariants)
                /\ OneVariant(c)
                       => /\ l.value.variant = call.self.variant
                          /\ r.value.variant = call.self.variant
                /\ (OneVariant(c) /\ Unrounded(c)) => l = r

C17_Witness ==
    /\ call.op = "try_add"
    /\ call.self = Px(Lit(2))
    /\ call.rhs = Px(Lit(2))
    /\ Unrounded(Px(Lit(2^MantissaBits)))
    /\ LeftGrouping(Px(Lit(2^MantissaBits))) = Ok(Px(Lit(2^MantissaBits + 4)))
    /\ RightGrouping(Px(Lit(2^MantissaBits))) = Ok(Px(Lit(2^MantissaBits + 4)))

\* a NumRect edge by edge
Rect(l, r, t, b) == [left |-> l, right |-> r, top |-> t, bottom |-> b]

\* the default Breadth of the claims: zero pixels
ZeroPx == [variant |-> "Px", value |-> [num |-> 0, den |-> 1]]

\* C18: NumRect::all(v) has its four edges equal to v, for v of either
\* variant.
C18_NumRectAll ==
    call.op = "NumRect::all" =>
        /\ ret.left = call.value
        /\ ret.right = call.value
        /\ ret.top = call.value
        /\ ret.bottom = call.value
        /\ DOMAIN ret = {"left", "right", "top", "bottom"}

C18_Witness ==
    /\ call.op = "NumRect::all"
    /\ call.value = Percent(Lit(2))
    /\ ret = Rect(Percent(Lit(2)), Percent(Lit(2)),
                  Percent(Lit(2)), Percent(Lit(2)))

\* C19: horizontal sets left and right, vertical sets top and bottom, and
\* left, right, top and bottom set the edge of their name; every other edge
\* is the default Breadth, Px(0).
C19_PartialConstructors ==
    LET v == call.value
    IN  /\ call.op = "NumRect::horizontal" => ret = Rect(v, v, ZeroPx, ZeroPx)
        /\ call.op = "NumRect::vertical" => ret = Rect(ZeroPx, ZeroPx, v, v)
        /\ call.op = "NumRect::left" => ret = Rect(v, ZeroPx, ZeroPx, ZeroPx)
        /\ call.op = "NumRect::right" => ret = Rect(ZeroPx, v, ZeroPx, ZeroPx)
        /\ call.op = "NumRect::top" => ret = Rect(ZeroPx, ZeroPx, v, ZeroPx)
        /\ call.op = "NumRect::bottom" => ret = Rect(ZeroPx, ZeroPx, ZeroPx, v)

C19_Witness ==
    /\ call.op = "NumRect::right"
    /\ call.value = Percent(Lit(1))
    /\ ret = Rect(ZeroPx, Percent(Lit(1)), ZeroPx, ZeroPx)

\* the Val of the variant and payload of a Breadth
SameVal(val, b) ==
    /\ b.variant = "Px" => val = [variant |-> "Val::Px", value |-> b.value]
    /\ b.variant = "Percent"
           => val = [variant |-> "Val::Percent", value |-> b.value]

\* C20: UiRect::from(rect) has, edge by edge, the Val of the variant and
\* payload of the edge of rect of the same name, and no edge Auto or
\* Undefined.
C20_UiRectFrom ==
    call.op = "UiRect::from" =>
        /\ SameVal(ret.left, call.rect.left)
        /\ SameVal(ret.right, call.rect.right)
        /\ SameVal(ret.top, call.rect.top)
        /\ SameVal(ret.bottom, call.rect.bottom)
        /\ \A edge \in {ret.left, ret.right, ret.top, ret.bottom} :
               edge \notin {ValAuto, ValUndefined}

C20_Witness ==
    /\ call.op = "UiRect::from"
    /\ call.rect = Rect(Px(Lit(1)), Percent(Lit(2)), Percent(Lit(2)),
                        Px(Lit(1)))
    /\ ret = Rect(ValPx(Lit(1)), ValPercent(Lit(2)), ValPercent(Lit(2)),
                  ValPx(Lit(1)))

\* C24: a Px receiver stays Px under every call, and a receiver of either
\* variant is Px after add_assign_with_size or sub_assign_with_size.
C24_PxAbsorbing ==
    [][/\ breadth.variant = "Px" => breadth'.variant = "Px"
       /\ call'.op \in {"add_assign_with_size", "sub_assign_with_size"}
              => breadth'.variant = "Px"]_vars

C24_Witness ==
    /\ call.op = "sub_assign_with_size"
    /\ call.self = Percent(Lit(1))
    /\ call.rhs = Percent(Lit(1))
    /\ call.size = Lit(100)
    /\ breadth.variant = "Px"

\* C25: a Breadth b converted to a Val and back with try_from is Ok(b),
\* never Err(NonEvaluateable).
C25_ReverseRoundTrip ==
    call.op = "Val::from" =>
        /\ Breadth_try_from(ret) # Err(NonEvaluateable)
        /\ Breadth_try_from(ret) = Ok(call.self)

C25_Witness ==
    /\ call.op = "Val::from"
    /\ call.self = Percent(Lit(0))
    /\ ret = ValPercent(Lit(0))
    /\ Breadth_try_from(ret) = Ok(Percent(Lit(0)))

IsEdgeSetterCall(c) ==
    c.op \in {"Style::border", "Style::padding", "<&mut Style>::border",
              "<&mut Style>::padding", "NodeBundle::border",
              "NodeBundle::padding"}

\* C21: after border(x) or padding(x) of any of the three impls, the field of
\* the style has, for a Breadth x, four edges that are each the Val of x, and
\* for a NumRect x, each edge the Val of the same edge of x.
C21_EdgeSetters ==
    IsEdgeSetterCall(call) =>
        LET built == IF call.impl = "NodeBundle" THEN node.style ELSE style
            field == IF call.setter = "border" THEN built.border
                     ELSE built.padding
            x == call.arg
        IN  /\ DOMAIN field = {"left", "right", "top", "bottom"}
            /\ IsBreadth(x) =>
                   /\ SameVal(field.left, x)
                   /\ SameVal(field.right, x)
                   /\ SameVal(field.top, x)
                   /\ SameVal(field.bottom, x)
            /\ ~IsBreadth(x) =>
                   /\ SameVal(field.left, x.left)
                   /\ SameVal(field.right, x.right)
                   /\ SameVal(field.top, x.top)
                   /\ SameVal(field.bottom, x.bottom)

C21_Witness ==
    /\ call.op = "NodeBundle::border"
    /\ call.arg = [variant |-> "Percent", value |-> [num |-> 2, den |-> 1]]
    /\ call.self.style.padding.top
           = [variant |-> "Val::Px", value |-> [num |-> 1, den |-> 1]]
    /\ node.style.border.bottom
           = [variant |-> "Val::Percent", value |-> [num |-> 2, den |-> 1]]
    /\ node.style.border.left = node.style.border.bottom

IsNodeBundleSetterCall(c) == "impl" \in DOMAIN c /\ c.impl = "NodeBundle"

\* C22: after a setter of the impl for NodeBundle, the style of the bundle is
\* the style that the same setter of the impl for Style makes of the style
\* the bundle had, from the same argument, and every other field of the
\* bundle is as it was.
C22_NodeBundleDelegates ==
    IsNodeBundleSetterCall(call) =>
        /\ node.style = StyleBuilderExt_Style(call.self.style,
                                             call.setter, call.arg)
        /\ DOMAIN node = DOMAIN call.self
        /\ \A f \in DOMAIN node \ {"style"} : node[f] = call.self[f]

C22_Witness ==
    /\ call.op = "NodeBundle::left"
    /\ call.arg = [variant |-> "Val::Px", value |-> [num |-> 1, den |-> 1]]
    /\ call.self.background_color
           = [BackgroundColor |-> [Color |-> "Color::RED"]]
    /\ node.background_color = call.self.background_color
    /\ node.style.position.left = call.arg

\* the fields of a Style, a rectangle or a size field by field
Leaves ==
    {"position.left", "position.right", "position.top", "position.bottom",
     "display", "flex_direction", "flex_wrap", "position_type",
     "flex_grow", "flex_shrink", "flex_basis", "min_size.width",
     "min_size.height", "size.width", "size.height", "max_size.width",
     "max_size.height", "margin.left", "margin.right", "margin.top",
     "margin.bottom", "border.left", "border.right", "border.top",
     "border.bottom", "padding.left", "padding.right", "padding.top",
     "padding.bottom", "overflow", "align_self", "align_items",
     "align_content", "justify_content"}

Leaf(st, l) ==
    CASE l = "position.left" -> st.position.left
      [] l = "position.right" -> st.position.right
      [] l = "position.top" -> st.position.top
      [] l = "position.bottom" -> st.position.bottom
      [] l = "display" -> st.display
      [] l = "flex_direction" -> st.flex_direction
      [] l = "flex_wrap" -> st.flex_wrap
      [] l = "position_type" -> st.position_type
      [] l = "flex_grow" -> st.flex_grow
      [] l = "flex_shrink" -> st.flex_shrink
      [] l = "flex_basis" -> st.flex_basis
      [] l = "min_size.width" -> st.min_size.width
      [] l = "min_size.height" -> st.min_size.height
      [] l = "size.width" -> st.size.width
      [] l = "size.height" -> st.size.height
      [] l = "max_size.width" -> st.max_size.width
      [] l = "max_size.height" -> st.max_size.height
      [] l = "margin.left" -> st.margin.left
      [] l = "margin.right" -> st.margin.right
      [] l = "margin.top" -> st.margin.top
      [] l = "margin.bottom" -> st.margin.bottom
      [] l = "border.left" -> st.border.left
      [] l = "border.right" -> st.border.right
      [] l = "border.top" -> st.border.top
      [] l = "border.bottom" -> st.border.bottom
      [] l = "padding.left" -> st.padding.left
      [] l = "padding.right" -> st.padding.right
      [] l = "padding.top" -> st.padding.top
      [] l = "padding.bottom" -> st.padding.bottom
      [] l = "overflow" -> st.overflow
      [] l = "align_self" -> st.align_self
      [] l = "align_items" -> st.align_items
      [] l = "align_content" -> st.align_content
      [] l = "justify_content" -> st.justify_content

\* the Val that a Breadth stands for
ValOf(b) ==
    IF b.variant = "Px" THEN [variant |-> "Val::Px", value |-> b.value]
    ELSE [variant |-> "Val::Percent", value |-> b.value]

\* the four edges of the field f, each with the value of the same edge of r
EdgeWrites(f, r) ==
    [l \in {f \o ".left", f \o ".right", f \o ".top", f \o ".bottom"} |->
        CASE l = f \o ".left" -> r.left
          [] l = f \o ".right" -> r.right
          [] l = f \o ".top" -> r.top
          [] l = f \o ".bottom" -> r.bottom]

\* the width and the height of the field f, from the size s
SizeWrites(f, s) ==
    [l \in {f \o ".width", f \o ".height"} |->
        IF l = f \o ".width" THEN s.width ELSE s.height]

\* the edges that a border or a padding is given: the Val of the Breadth x on
\* every edge, or the Val of each edge of the NumRect x
EdgeVals(x) ==
    IF "variant" \in DOMAIN x
    THEN [left |-> ValOf(x), right |-> ValOf(x),
          top |-> ValOf(x), bottom |-> ValOf(x)]
    ELSE [left |-> ValOf(x.left), right |-> ValOf(x.right),
          top |-> ValOf(x.top), bottom |-> ValOf(x.bottom)]

\* the fields that a setter is named for, with the values it is to give
\* them: a function from the fields written to their new values
Writes(c) ==
    CASE c.setter = "left" -> ("position.left" :> c.arg)
      [] c.setter = "right" -> ("position.right" :> c.arg)
      [] c.setter = "top" -> ("position.top" :> c.arg)
      [] c.setter = "bottom" -> ("position.bottom" :> c.arg)
      [] c.setter = "display" -> ("display" :> [variant |-> "Display::Flex"])
      [] c.setter = "disable" -> ("display" :> [variant |-> "Display::None"])
      [] c.setter = "row" ->
             ("flex_direction" :> [variant |-> "FlexDirection::Row"])
      [] c.setter = "column" ->
             ("flex_direction" :> [variant |-> "FlexDirection::Column"])
      [] c.setter = "row_reverse" ->
             ("flex_direction" :> [variant |-> "FlexDirection::RowReverse"])
      [] c.setter = "column_reverse" ->
             ("flex_direction" :> [variant |-> "FlexDirection::ColumnReverse"])
      [] c.setter = "wrap" -> ("flex_wrap" :> [variant |-> "FlexWrap::Wrap"])
      [] c.setter = "wrap_reverse" ->
             ("flex_wrap" :> [variant |-> "FlexWrap::WrapReverse"])
      [] c.setter = "absolute" ->
             ("position_type" :> [variant |-> "PositionType::Absolute"])
      [] c.setter = "relative" ->
             ("position_type" :> [variant |-> "PositionType::Relative"])
      [] c.setter = "grow" -> ("flex_grow" :> c.arg)
      [] c.setter = "shrink" -> ("flex_shrink" :> c.arg)
      [] c.setter = "basis" -> ("flex_basis" :> c.arg)
      [] c.setter = "min_width" -> ("min_size.width" :> c.arg)
      [] c.setter = "width" -> ("size.width" :> c.arg)
      [] c.setter = "max_width" -> ("max_size.width" :> c.arg)
      [] c.setter = "min_height" -> ("min_size.height" :> c.arg)
      [] c.setter = "height" -> ("size.height" :> c.arg)
      [] c.setter = "max_height" -> ("max_size.height" :> c.arg)
      [] c.setter = "margin" -> IF "variant" \in DOMAIN c.arg
             THEN EdgeWrites("margin", [left |-> c.arg, right |-> c.arg,
                                        top |-> c.arg, bottom |-> c.arg])
             ELSE EdgeWrites("margin", c.arg)
      [] c.setter = "border" -> EdgeWrites("border", EdgeVals(c.arg))
      [] c.setter = "padding" -> EdgeWrites("padding", EdgeVals(c.arg))
      [] c.setter = "hide_overflow" ->
             ("overflow" :> [variant |-> "Overflow::Hidden"])
      [] c.setter = "show_overflow" ->
             ("overflow" :> [variant |-> "Overflow::Visible"])
      [] c.setter = "min_size" -> SizeWrites("min_size", c.arg)
      [] c.setter = "size" -> SizeWrites("size", c.arg)
      [] c.setter = "max_size" -> SizeWrites("max_size", c.arg)
      [] c.setter = "align_self" -> ("align_self" :> c.arg)
      [] c.setter = "align_items" -> ("align_items" :> c.arg)
      [] c.setter = "align_content" -> ("align_content" :> c.arg)
      [] c.setter = "justify_content" -> ("justify_content" :> c.arg)

IsStyleSetterCall(c) ==
    "impl" \in DOMAIN c /\ c.impl \in {"Style", "<&mut Style>"}

\* C23: a chain starts from the default Style, and after every setter call on
\* a Style each field that the setter is named for holds the value the call
\* writes, and every other field holds the value it had before the call: so
\* after a chain a field holds what the last setter for it wrote, or its
\* initial value.
C23_LastWriteWins ==
    /\ call.op = "style" => style = Style_default
    /\ IsStyleSetterCall(call) =>
           LET wr == Writes(call)
           IN  \A l \in Leaves :
                   Leaf(style, l) = IF l \in DOMAIN wr THEN wr[l]
                                    ELSE Leaf(call.self, l)

C23_Witness ==
    /\ chain = 2
    /\ call.op = "<&mut Style>::row"
    /\ call.self.flex_direction = [variant |-> "FlexDirection::Column"]
    /\ style.flex_direction = [variant |-> "FlexDirection::Row"]
    /\ style.flex_wrap = [default |-> "flex_wrap"]

====
